---- MODULE Spec2Model ----
(***************************************************************************)
(* Dock allocation and escalation engine of RoutingTW (timewindow.py,      *)
(* company.py).  The OR-tools routing solve is an external black box: each *)
(* call either fails (no solution) or yields a solution whose dock arrival *)
(* lies inside the dock window the company was given.                      *)
(***************************************************************************)
EXTENDS Integers, Sequences, FiniteSets, TLC

\* ---- program constants (timewindow.py:17-25) ----
MAX_VEHICLES == 5
DOCK_BEGIN == 6
MAX_DOCK_BEGIN == 6
MAX_DOCK_END == 20

\* slip: the seed's closing time out of step with MAX_DOCK_END
DOCK_END_Late == MAX_DOCK_END + 1

DOCK_END == 20

\* Python's None and a present value, kept apart from every value: None is
\* the empty tuple and a value v is the one-element tuple <<v>>
None == <<>>

Some(v) == <<v>>

Val(x) == x[1]

\* depots given to the companies by create_companies(), in list order
create_companies == <<5, 0, 1, 3>>

NumCompanies == Len(create_companies)

\* ---- bounds of the model ----
\* how many companies of one run may need more than one solve attempt
MaxEscalated == 1

\* the partitioner is also exercised under closing bounds down to
\* MAX_DOCK_END - MaxShrink (the deployment (6, 12) of the scenarios)
MaxShrink == 8

VARIABLES
    time_windows,   \* engine: the pool, a Python list used as a stack
    companies,      \* engine: the Company objects, by list position
    idx,            \* engine: position of the for loop over companies
    pc,             \* engine: where the run is
    tw,             \* engine: the window popped for the current company
    num_vehicles,   \* main: vehicle count of the current solve attempt
    company_dict,   \* main's return value for the current company
    calls,          \* solver calls issued by the current main(company)
    escalated,      \* number of companies whose first attempt was infeasible
    domain,         \* module globals <<MAX_DOCK_BEGIN, MAX_DOCK_END>>
    fIn,            \* arguments of the last time_window_factory call
    fOut            \* what that call returned

vars == <<time_windows, companies, idx, pc, tw, num_vehicles, company_dict,
          calls, escalated, domain, fIn, fOut>>

\* Python truthiness of an int-or-None value
Truthy(x) == x # None /\ Val(x) # 0

\* Company.__init__ on top of the class attributes
Company(depot) ==
    [DEPOT |-> depot, NUM_VEHICLES |-> 0, PLAN_OUTPUT |-> None,
     DOCK_ARRIVAL |-> None, DOCK_BEGIN |-> None, DOCK_END |-> None]

set_time_window(c, time_window) ==
    [c EXCEPT !.DOCK_BEGIN = Some(time_window[1]),
              !.DOCK_END = Some(time_window[2])]

\* variant: a failed escalation leaves an (empty) plan to iterate
set_company_dict_EmptyPlan(c, d) ==
    IF d # None
    THEN [c EXCEPT !.NUM_VEHICLES = Val(d).num_vehicles,
                   !.DOCK_ARRIVAL = Val(d).dock_arrival,
                   !.PLAN_OUTPUT = Val(d).plan_output]
    ELSE [c EXCEPT !.PLAN_OUTPUT = Some("empty")]

set_company_dict(c, d) ==
    IF d # None
    THEN [c EXCEPT !.NUM_VEHICLES = Val(d).num_vehicles,
                   !.DOCK_ARRIVAL = Val(d).dock_arrival,
                   !.PLAN_OUTPUT = Val(d).plan_output]
    ELSE c

\* the record print_solution builds: the vehicle count of the attempt and
\* the arrival bound read at the dock node
print_solution(n, dock_arrival) ==
    Some([num_vehicles |-> n, plan_output |-> Some("routes"),
          dock_arrival |-> Some(dock_arrival)])

\* main's retry step: the next count, and whether main recurses with it
NextCount(n) == n + 1

\* slips of the retry test: one count too many, one count too few
CanRetry_PastMax(n) == n <= MAX_VEHICLES + 1

CanRetry_Early(n) == n < MAX_VEHICLES

CanRetry(n) == n <= MAX_VEHICLES

\* time_window_factory, reading the two module globals from dom
\* slips of the right candidate: no buffer after the arrival; a closing
\* bound that is itself accepted
new_dock_begin_NoBuffer(dom, time_split) ==
    IF time_split + 1 < dom[2] THEN Some(time_split) ELSE None

new_dock_begin_Inclusive(dom, time_split) ==
    IF time_split + 1 <= dom[2] THEN Some(time_split + 1) ELSE None

\* slip of the right candidate: minus for plus
new_dock_begin_SignSlip(dom, time_split) ==
    IF time_split + 1 < dom[2] THEN Some(time_split - 1) ELSE None

new_dock_begin(dom, time_split) ==
    IF time_split + 1 < dom[2] THEN Some(time_split + 1) ELSE None

\* slip of the left candidate: no buffer before the arrival
new_dock_end_NoBuffer(dom, time_window, time_split) ==
    IF (time_split - 1) > dom[1] /\ (time_split - 1) > time_window[1]
    THEN Some(time_split) ELSE None

new_dock_end(dom, time_window, time_split) ==
    IF (time_split - 1) > dom[1] /\ (time_split - 1) > time_window[1]
    THEN Some(time_split - 1) ELSE None

time_window_factory(dom, time_window, time_split) ==
    LET nb == new_dock_begin(dom, time_split)
        ne == new_dock_end(dom, time_window, time_split)
    IN  IF Truthy(nb) /\ Truthy(ne)
        THEN Some(<< <<time_window[1], Val(ne)>>, <<Val(nb), time_window[2]>> >>)
        ELSE IF Truthy(nb) THEN Some(<< <<Val(nb), time_window[2]>> >>)
        ELSE IF Truthy(ne) THEN Some(<< <<time_window[1], Val(ne)>> >>)
        ELSE None

\* ---- the engine ----
\* list.pop() takes the element at the end of the list
pop_index_Front(l) == 1

pop_index(l) == Len(l)

\* the list without its element at position i
RemoveAt(l, i) == SubSeq(l, 1, i - 1) \o SubSeq(l, i + 1, Len(l))

\* the for loop moves to the next company of the list
NextCompany_Stay(i) == i

NextCompany(i) == i + 1

Init ==
    /\ time_windows = << <<DOCK_BEGIN, DOCK_END>> >>
    /\ companies = [i \in 1..NumCompanies |-> Company(create_companies[i])]
    /\ idx = 1
    /\ pc = "pop"
    /\ tw = None
    /\ num_vehicles = 0
    /\ company_dict = None
    /\ calls = <<>>
    /\ escalated = 0
    /\ domain = <<MAX_DOCK_BEGIN, MAX_DOCK_END>>
    /\ fIn = None
    /\ fOut = None

\* the for loop has no company left: engine returns
LoopDone ==
    /\ pc = "pop" /\ idx > NumCompanies
    /\ pc' = "done"
    /\ UNCHANGED <<time_windows, companies, idx, tw, num_vehicles,
                   company_dict, calls, escalated, domain, fIn, fOut>>

\* lines 193-199: pop() on an empty list raises and the engine returns;
\* otherwise the company gets the last pushed window and main(company) starts
Pop ==
    /\ pc = "pop" /\ idx <= NumCompanies
    /\ IF time_windows = <<>>
       THEN /\ pc' = "exhausted"
            /\ UNCHANGED <<time_windows, companies, tw, num_vehicles,
                           company_dict, calls>>
       ELSE /\ tw' = time_windows[pop_index(time_windows)]
            /\ time_windows' = RemoveAt(time_windows, pop_index(time_windows))
            /\ companies' = [companies EXCEPT ![idx] = set_time_window(@, tw')]
            /\ num_vehicles' = 1
            /\ company_dict' = None
            /\ calls' = <<>>
            /\ pc' = "solving"
    /\ UNCHANGED <<idx, escalated, domain, fIn, fOut>>

\* one activation of main: the solver finds a solution whose dock arrival is
\* inside the company's window and main returns print_solution's record
SolveFeasible ==
    /\ pc = "solving"
    /\ \E t \in Val(companies[idx].DOCK_BEGIN) .. Val(companies[idx].DOCK_END) :
          company_dict' = print_solution(num_vehicles, t)
    /\ calls' = Append(calls, [n |-> num_vehicles, ok |-> TRUE, dock |-> TRUE])
    /\ pc' = "recording"
    /\ UNCHANGED <<time_windows, companies, idx, tw, num_vehicles,
                   escalated, domain, fIn, fOut>>

\* one activation of main: the solver's solution has no stop at DOCK_NODE;
\* print_solution reads dock_arrival unassigned (line 88) and the
\* UnboundLocalError leaves main and engine
SolveNoDock ==
    /\ pc = "solving"
    /\ calls' = Append(calls, [n |-> num_vehicles, ok |-> TRUE, dock |-> FALSE])
    /\ pc' = "aborted"
    /\ UNCHANGED <<time_windows, companies, idx, tw, num_vehicles,
                   company_dict, escalated, domain, fIn, fOut>>

\* one activation of main: no solution; main recurses with one more vehicle
\* or returns None once the count passes MAX_VEHICLES
SolveInfeasible ==
    /\ pc = "solving"
    /\ IF num_vehicles = 1
       THEN escalated < MaxEscalated /\ escalated' = escalated + 1
       ELSE UNCHANGED escalated
    /\ calls' = Append(calls, [n |-> num_vehicles, ok |-> FALSE, dock |-> FALSE])
    /\ num_vehicles' = NextCount(num_vehicles)
    /\ IF CanRetry(num_vehicles')
       THEN pc' = "solving" /\ UNCHANGED company_dict
       ELSE pc' = "recording" /\ company_dict' = None
    /\ UNCHANGED <<time_windows, companies, idx, tw, domain, fIn, fOut>>

\* rest of the loop body after main returned (lines 201-205):
\*   set_company_dict; iterating PLAN_OUTPUT = None raises TypeError;
\*   with a truthy DOCK_ARRIVAL the partitioner's list is appended to the
\*   pool, and list += None raises TypeError; an exception leaves engine
Record ==
    /\ pc = "recording"
    /\ LET c == set_company_dict(companies[idx], company_dict)
       IN  /\ companies' = [companies EXCEPT ![idx] = c]
           /\ IF c.PLAN_OUTPUT = None
              THEN /\ pc' = "aborted"
                   /\ UNCHANGED <<time_windows, idx, fIn, fOut>>
              ELSE IF ~Truthy(c.DOCK_ARRIVAL)
              THEN /\ pc' = "pop"
                   /\ idx' = NextCompany(idx)
                   /\ UNCHANGED <<time_windows, fIn, fOut>>
              ELSE LET r == time_window_factory(domain, tw, Val(c.DOCK_ARRIVAL))
                   IN  /\ fIn' = <<tw, Val(c.DOCK_ARRIVAL)>>
                       /\ fOut' = r
                       /\ IF r = None
                          THEN /\ pc' = "aborted"
                               /\ UNCHANGED <<time_windows, idx>>
                          ELSE /\ time_windows' = time_windows \o Val(r)
                               /\ idx' = NextCompany(idx)
                               /\ pc' = "pop"
    /\ UNCHANGED <<tw, num_vehicles, company_dict, calls, escalated, domain>>

Next ==
    \/ LoopDone
    \/ Pop
    \/ SolveFeasible
    \/ SolveNoDock
    \/ SolveInfeasible
    \/ Record

Spec == Init /\ [][Next]_vars

\* ---- the partitioner on its own ----
\* every deployment <<opening, closing>>, every window inside it and every
\* arrival inside the window; one call of time_window_factory
Domains == {<<MAX_DOCK_BEGIN, MAX_DOCK_END - k>> : k \in 0..MaxShrink}

WindowsIn(dom) == {<<b, e>> : b \in dom[1]..dom[2], e \in dom[1]..dom[2]} \
                  {<<b, e>> \in (dom[1]..dom[2]) \X (dom[1]..dom[2]) : b > e}

InitPartition ==
    /\ domain \in Domains
    /\ \E w \in WindowsIn(domain) : \E t \in w[1]..w[2] : fIn = <<w, t>>
    /\ fOut = None
    /\ pc = "call"
    /\ time_windows = <<>>
    /\ companies = [i \in 1..NumCompanies |-> Company(create_companies[i])]
    /\ idx = 1
    /\ tw = None
    /\ num_vehicles = 0
    /\ company_dict = None
    /\ calls = <<>>
    /\ escalated = 0

Partition ==
    /\ pc = "call"
    /\ fOut' = time_window_factory(domain, fIn[1], fIn[2])
    /\ pc' = "returned"
    /\ UNCHANGED <<time_windows, companies, idx, tw, num_vehicles,
                   company_dict, calls, escalated, domain, fIn>>

NextPartition == Partition

SpecPartition == InitPartition /\ [][NextPartition]_vars

\* ---- vocabulary of the properties ----
Companies == 1..NumCompanies

\* the partitioner has been called and has returned
Called == fIn # None /\ pc # "call"

\* the successor windows of the last call (none when it returned None)
Returned == IF fOut = None THEN <<>> ELSE Val(fOut)

Span(w) == w[2] - w[1]

Contains(w, t) == w[1] <= t /\ t <= w[2]

HasArrival(i) == companies[i].DOCK_ARRIVAL # None

Arrival(i) == Val(companies[i].DOCK_ARRIVAL)

Ended == pc \in {"done", "exhausted", "aborted"}

\* the run stopped on a solution that has no stop at the dock
NoDockSeen ==
    calls # <<>> /\ calls[Len(calls)].ok /\ ~calls[Len(calls)].dock

\* C1: every window the partitioner returns has begin <= end, also when the
\* consumed window is a sub-window that ends below the closing bound
C1_WellFormed ==
    Called => \A k \in 1..Len(Returned) : Returned[k][1] <= Returned[k][2]

\* C2: no window in the pool contains the dock arrival of a company that
\* has recorded one; the successors of the last split end at t-1 / begin
\* at t+1
C2_PoolExcludesArrivals ==
    /\ \A i \in Companies : HasArrival(i) =>
          \A k \in 1..Len(time_windows) : ~Contains(time_windows[k], Arrival(i))
    /\ Called => \A k \in 1..Len(Returned) :
          \/ Returned[k] = <<fIn[1][1], fIn[2] - 1>>
          \/ Returned[k] = <<fIn[2] + 1, fIn[1][2]>>

C2_Witness ==
    /\ pc = "pop" /\ idx = 3
    /\ Len(time_windows) >= 2
    /\ HasArrival(1) /\ HasArrival(2)

\* C3: two distinct companies that both recorded a dock arrival recorded
\* instants at least one time unit (the unload buffer) apart
C3_ArrivalsApart ==
    \A i \in Companies : \A j \in Companies :
        (i # j /\ HasArrival(i) /\ HasArrival(j)) =>
            \/ Arrival(i) - Arrival(j) >= 1
            \/ Arrival(j) - Arrival(i) >= 1

C3_Witness == pc = "done" /\ \A i \in Companies : HasArrival(i)

\* C4: when main returns the terminal failure the engine goes on: nothing is
\* recorded on the company, the pool stays as the pop left it, and the loop
\* moves to the next company
C4_FailureContinues ==
    [][(pc = "recording" /\ company_dict = None) =>
          /\ pc' = "pop"
          /\ idx' = idx + 1
          /\ time_windows' = time_windows
          /\ companies'[idx].DOCK_ARRIVAL = None
          /\ companies'[idx].PLAN_OUTPUT = None]_vars

\* C5: a run that ends with an empty pool before every company got a window
\* ends in Exhausted, without an error, the remaining companies untouched
C5_EmptyPoolExhausts ==
    (Ended /\ ~NoDockSeen /\ time_windows = <<>>
           /\ \E i \in Companies : companies[i].DOCK_BEGIN = None)
    => /\ pc = "exhausted"
       /\ \A i \in Companies : i >= idx => companies[i] = Company(create_companies[i])

\* C6: the vehicle counts of one main(company) are 1, 2, 3, ... in steps of
\* one and never above MAX_VEHICLES, so at most MAX_VEHICLES solver calls
C6_CountsAscend ==
    /\ Len(calls) <= MAX_VEHICLES
    /\ \A k \in 1..Len(calls) : calls[k].n = k
    /\ pc = "solving" => num_vehicles = Len(calls) + 1 /\ num_vehicles <= MAX_VEHICLES

C6_Witness == pc = "recording" /\ Len(calls) = MAX_VEHICLES

\* C7: main returns the first feasible result, with the count of that call,
\* and returns None exactly when every count 1..MAX_VEHICLES was infeasible
C7_FirstFeasible ==
    /\ pc = "recording" =>
         /\ company_dict # None =>
               /\ Val(company_dict).num_vehicles = Len(calls)
               /\ calls[Len(calls)].ok /\ calls[Len(calls)].n = Len(calls)
               /\ \A k \in 1..(Len(calls) - 1) : ~calls[k].ok
         /\ company_dict = None <=>
               /\ Len(calls) = MAX_VEHICLES
               /\ \A k \in 1..MAX_VEHICLES : calls[k].n = k /\ ~calls[k].ok
    /\ (pc = "pop" /\ idx > 1) => companies[idx - 1].NUM_VEHICLES = Len(calls)

C7_Witness ==
    /\ pc = "recording" /\ company_dict # None
    /\ Len(calls) = 3 /\ Val(company_dict).num_vehicles = 3

\* the rule of the design: which candidates are usable, and the list made
\* of the usable ones, left first
LeftUsable(dom, w, t) == t - 1 > w[1] /\ t - 1 >= dom[1]

RightUsable(dom, w, t) == t + 1 < dom[2]

Reference(dom, w, t) ==
    (IF LeftUsable(dom, w, t) THEN << <<w[1], t - 1>> >> ELSE <<>>) \o
    (IF RightUsable(dom, w, t) THEN << <<t + 1, w[2]>> >> ELSE <<>>)

\* C8: for every window inside the domain and every arrival inside the
\* window the partitioner returns what the rule gives; the three cases of
\* the deployment (6, 12) come out as stated
C8_MatchesReference ==
    pc = "returned" =>
        /\ Returned = Reference(domain, fIn[1], fIn[2])
        /\ fOut = None <=> Reference(domain, fIn[1], fIn[2]) = <<>>
        /\ (domain = <<6, 12>> /\ fIn = << <<6, 12>>, 9 >>)
              => fOut = Some(<< <<6, 8>>, <<10, 12>> >>)
        /\ (domain = <<6, 12>> /\ fIn = << <<6, 12>>, 7 >>)
              => fOut = Some(<< <<8, 12>> >>)
        /\ (domain = <<6, 12>> /\ fIn = << <<6, 12>>, 12 >>)
              => fOut = Some(<< <<6, 11>> >>)

C8_Witness ==
    /\ pc = "returned"
    /\ domain = <<6, 12>> /\ fIn = << <<6, 12>>, 9 >>
    /\ fOut = Some(<< <<6, 8>>, <<10, 12>> >>)

\* C9: an arrival within the buffer of both edges of the consumed window
\* leaves no successor window
C9_NoSuccessorAtEdges ==
    (Called /\ fIn[2] - fIn[1][1] <= 1 /\ fIn[1][2] - fIn[2] <= 1)
        => Len(Returned) = 0

\* C10: every successor window lies inside its parent (both ends between
\* the parent's ends) and its span is at least one below the parent's
C10_InsideAndNarrower ==
    Called => \A k \in 1..Len(Returned) :
        /\ fIn[1][1] <= Returned[k][1] /\ Returned[k][1] <= fIn[1][2]
        /\ fIn[1][1] <= Returned[k][2] /\ Returned[k][2] <= fIn[1][2]
        /\ Span(Returned[k]) <= Span(fIn[1]) - 1

\* C11: under a solver that answers each call with a solution arriving
\* inside the window or with no solution, a run that has stopped has stopped
\* in Done or Exhausted, after at most MAX_VEHICLES calls for the company
C11_EndsDoneOrExhausted ==
    (Ended /\ ~NoDockSeen) =>
        /\ pc \in {"done", "exhausted"}
        /\ Len(calls) <= MAX_VEHICLES

\* C12: a solution without a stop at the dock is no error: the result is
\* recorded with an absent dock arrival and the engine goes on
C12_NoDockHandled ==
    NoDockSeen =>
        /\ pc # "aborted"
        /\ company_dict # None
        /\ Val(company_dict).dock_arrival = None

\* C13: a company gets the window at the end of the list, the one pushed
\* last; whatever stays in the pool lies before it; a split in two leaves
\* the right successor on top of the left one
C13_Lifo ==
    [][/\ (pc = "pop" /\ pc' = "solving") =>
             /\ tw' = time_windows[Len(time_windows)]
             /\ time_windows' = SubSeq(time_windows, 1, Len(time_windows) - 1)
             /\ \A k \in 1..Len(time_windows') : time_windows'[k][2] < tw'[1]
             /\ (Called /\ Len(Returned) = 2) =>
                   tw' = <<fIn[2] + 1, fIn[1][2]>>
       /\ (pc = "recording" /\ pc' = "pop" /\ Len(Returned') = 2) =>
             /\ time_windows'[Len(time_windows')] = <<fIn'[2] + 1, fIn'[1][2]>>
             /\ time_windows'[Len(time_windows') - 1] = <<fIn'[1][1], fIn'[2] - 1>>
      ]_vars

C13_Witness ==
    /\ pc = "solving" /\ idx = 3
    /\ Len(Returned) = 2
    /\ tw = Returned[2]
    /\ time_windows = << <<DOCK_BEGIN, Arrival(1) - 1>>, Returned[1] >>

Assigned(i) == companies[i].DOCK_BEGIN # None

Recorded(i) == companies[i].PLAN_OUTPUT # None

WindowOf(i) == <<Val(companies[i].DOCK_BEGIN), Val(companies[i].DOCK_END)>>

\* C14: a company is given a window once and a result once, the window
\* first; companies are taken in list order; no window goes to two companies
C14_OncePerCompany ==
    /\ [](\A i \in Companies :
            /\ Recorded(i) => Assigned(i)
            /\ Assigned(i) => (i <= idx /\ \A j \in 1..(i - 1) : Recorded(j))
            /\ \A j \in Companies :
                 (i # j /\ Assigned(i) /\ Assigned(j)) => WindowOf(i) # WindowOf(j))
    /\ [][/\ idx' \in {idx, idx + 1}
          /\ \A i \in Companies :
               /\ Assigned(i) => (Assigned(i)' /\ WindowOf(i)' = WindowOf(i))
               /\ Recorded(i) => companies'[i] = companies[i]]_vars

C14_Witness ==
    /\ pc = "recording" /\ idx = 3
    /\ Recorded(1) /\ Recorded(2) /\ Assigned(3) /\ ~Recorded(3) /\ ~Assigned(4)

\* C16: a served company whose arrival leaves neither candidate usable
\* pushes nothing and the engine goes on with the next company; a served
\* company changes the size of the pool by -1 + k, k in 0..2
C16_NoSuccessorContinues ==
    [][/\ (/\ pc = "recording" /\ company_dict # None
           /\ time_window_factory(domain, tw,
                  Val(Val(company_dict).dock_arrival)) = None) =>
             /\ pc' = "pop"
             /\ idx' = idx + 1
             /\ time_windows' = time_windows
       /\ (pc = "recording" /\ company_dict # None /\ pc' = "pop") =>
             Len(time_windows') - Len(time_windows) \in 0..2]_vars

InDomain(w) == w[1] >= MAX_DOCK_BEGIN /\ w[2] <= MAX_DOCK_END

\* C17: every window in the pool and every window given to a company begins
\* at or after MAX_DOCK_BEGIN and ends at or before MAX_DOCK_END
C17_WindowsInDomain ==
    /\ \A k \in 1..Len(time_windows) : InDomain(time_windows[k])
    /\ \A i \in Companies : Assigned(i) => InDomain(WindowOf(i))

C17_Witness ==
    /\ pc = "solving" /\ idx = 3
    /\ Len(time_windows) = 2
    /\ WindowOf(3) # <<DOCK_BEGIN, DOCK_END>>

\* two windows share an instant
Overlap(w, v) ==
    /\ w[1] <= w[2] /\ v[1] <= v[2]
    /\ w[1] <= v[2] /\ v[1] <= w[2]

\* C18: no instant belongs to two windows of the pool, nor to a pool window
\* and the window of the company being solved
C18_PoolDisjoint ==
    /\ \A k \in 1..Len(time_windows) : \A m \in 1..Len(time_windows) :
          k # m => ~Overlap(time_windows[k], time_windows[m])
    /\ pc \in {"solving", "recording"} =>
          \A k \in 1..Len(time_windows) : ~Overlap(time_windows[k], tw)

C18_Witness ==
    /\ pc = "solving" /\ idx = 4
    /\ Len(time_windows) = 3
    /\ \A k \in 1..3 : time_windows[k][1] <= time_windows[k][2]

\* C19: whenever the loop reaches a company the pool holds a window, so the
\* run never takes the empty-pool return
C19_PoolNeverEmptyAtPop ==
    /\ pc # "exhausted"
    /\ (pc = "pop" /\ idx <= NumCompanies) => time_windows # <<>>

C19_Witness ==
    /\ pc = "pop" /\ idx = NumCompanies
    /\ \A i \in 1..(NumCompanies - 1) : Recorded(i) /\ HasArrival(i)
    /\ time_windows # <<>>

====
